---------------------------- MODULE Spec2Model ----------------------------
(***************************************************************************)
(* Model of econtools/util/frametools.py: stata_merge, group_id and        *)
(* winsorize, over pandas DataFrames.                                      *)
(*                                                                         *)
(* A DataFrame is a record                                                 *)
(*     [columns |-> sequence of column names,                              *)
(*      rows    |-> sequence of rows, each a function column -> value,     *)
(*      index   |-> sequence of row labels]                                *)
(* Values are small naturals and the missing value NaN.                    *)
(***************************************************************************)
EXTENDS Integers, Sequences, FiniteSets, TLC

VARIABLES left, right, call, result, stdout

vars == <<left, right, call, result, stdout>>

-----------------------------------------------------------------------------
(* Bounds of the input space *)

MaxRows == 2
MaxVal == 1

-----------------------------------------------------------------------------
(* Values *)

\* pandas' missing value; every comparison with it is False, and merge /
\* drop_duplicates treat two missing keys as the same key.
NaN == -1

Val == (0..MaxVal) \cup {NaN}

Range(s) == {s[i] : i \in DOMAIN s}

RECURSIVE Flatten(_)
Flatten(ss) == IF ss = <<>> THEN <<>> ELSE Head(ss) \o Flatten(Tail(ss))

RangeIndex(n) == [i \in 1..n |-> i - 1]

NoTable == [columns |-> <<>>, rows |-> <<>>, index |-> <<>>]

NRows(df) == Len(df.rows)

NCols(df) == Len(df.columns)

\* df.shape
Shape(df) == <<NRows(df), NCols(df)>>

\* df[col] = v (a scalar, broadcast): overwrites the column if it exists,
\* appends it otherwise.
SetColumn(df, col, v) ==
    [df EXCEPT
        !.columns = IF col \in Range(df.columns) THEN df.columns
                    ELSE Append(df.columns, col),
        !.rows = [i \in DOMAIN df.rows |->
                    [c \in (DOMAIN df.rows[i]) \cup {col} |->
                        IF c = col THEN v ELSE df.rows[i][c]]]]

\* df[col] = series (one value per row)
SetColumnSeries(df, col, vs) ==
    [df EXCEPT
        !.columns = IF col \in Range(df.columns) THEN df.columns
                    ELSE Append(df.columns, col),
        !.rows = [i \in DOMAIN df.rows |->
                    [c \in (DOMAIN df.rows[i]) \cup {col} |->
                        IF c = col THEN vs[i] ELSE df.rows[i][c]]]]

\* del df[col]
DelColumn(df, col) ==
    [df EXCEPT
        !.columns = SelectSeq(df.columns, LAMBDA c : c # col),
        !.rows = [i \in DOMAIN df.rows |->
                    [c \in (DOMAIN df.rows[i]) \ {col} |-> df.rows[i][c]]]]

\* df[cols]: projection on a list of columns (a new frame, same index)
Project(df, cols) ==
    [columns |-> cols,
     rows |-> [i \in DOMAIN df.rows |-> [c \in Range(cols) |-> df.rows[i][c]]],
     index |-> df.index]

KeyOf(row, on) == [k \in DOMAIN on |-> row[on[k]]]

-----------------------------------------------------------------------------
(* pandas.merge(left, right, on=on, how=how) *)

\* Output columns: the left frame's, then the right frame's that are no key.
\* A non-key name present on both sides gets the suffixes _x and _y.
MergeColumns(lcols, rcols, on) ==
    [i \in DOMAIN lcols |->
        IF lcols[i] \in Range(on) THEN [name |-> lcols[i], side |-> "key", src |-> lcols[i]]
        ELSE IF lcols[i] \in Range(rcols)
             THEN [name |-> lcols[i] \o "_x", side |-> "left", src |-> lcols[i]]
             ELSE [name |-> lcols[i], side |-> "left", src |-> lcols[i]]]
    \o
    LET rest == SelectSeq(rcols, LAMBDA c : c \notin Range(on))
    IN [i \in DOMAIN rest |->
        IF rest[i] \in Range(lcols)
        THEN [name |-> rest[i] \o "_y", side |-> "right", src |-> rest[i]]
        ELSE [name |-> rest[i], side |-> "right", src |-> rest[i]]]

\* One output row; lrow / rrow is <<>> when that side has no matching row.
MergeRow(mcols, lrow, rrow) ==
    [n \in {mcols[i].name : i \in DOMAIN mcols} |->
        LET s == CHOOSE s \in Range(mcols) : s.name = n
        IN CASE s.side = "key" -> IF lrow # <<>> THEN lrow[1][s.src] ELSE rrow[1][s.src]
             [] s.side = "left" -> IF lrow # <<>> THEN lrow[1][s.src] ELSE NaN
             [] s.side = "right" -> IF rrow # <<>> THEN rrow[1][s.src] ELSE NaN]

\* Fault model for Matches: a missing key matches nothing.
MatchesNaNDistinct(rows, on, key) ==
    SelectSeq(rows, LAMBDA r : KeyOf(r, on) = key /\ NaN \notin Range(key))

Matches(rows, on, key) == SelectSeq(rows, LAMBDA r : KeyOf(r, on) = key)

\* Rows in the order of the left keys; an unmatched left row is kept when
\* keepLeft.
LeftOrderRows(mcols, lrows, rrows, on, keepLeft) ==
    Flatten([i \in DOMAIN lrows |->
        LET m == Matches(rrows, on, KeyOf(lrows[i], on))
        IN IF m = <<>>
           THEN (IF keepLeft THEN <<MergeRow(mcols, <<lrows[i]>>, <<>>)>> ELSE <<>>)
           ELSE [k \in DOMAIN m |-> MergeRow(mcols, <<lrows[i]>>, <<m[k]>>)]])

\* Rows in the order of the right keys; an unmatched right row is kept.
RightOrderRows(mcols, lrows, rrows, on) ==
    Flatten([j \in DOMAIN rrows |->
        LET m == Matches(lrows, on, KeyOf(rrows[j], on))
        IN IF m = <<>>
           THEN <<MergeRow(mcols, <<>>, <<rrows[j]>>)>>
           ELSE [k \in DOMAIN m |-> MergeRow(mcols, <<m[k]>>, <<rrows[j]>>)]])

RightOnlyRows(mcols, lrows, rrows, on) ==
    LET un == SelectSeq(rrows, LAMBDA r : Matches(lrows, on, KeyOf(r, on)) = <<>>)
    IN [j \in DOMAIN un |-> MergeRow(mcols, <<>>, <<un[j]>>)]

\* Order of two values in a sort: missing values last.
ValLess(a, b) == a # NaN /\ (b = NaN \/ a < b)

RECURSIVE KeyLess(_, _)
KeyLess(k1, k2) ==
    IF k1 = <<>> THEN FALSE
    ELSE IF Head(k1) # Head(k2) THEN ValLess(Head(k1), Head(k2))
    ELSE KeyLess(Tail(k1), Tail(k2))

RECURSIVE InsertByKey(_, _, _)
InsertByKey(sorted, r, on) ==
    IF sorted = <<>> THEN <<r>>
    ELSE IF KeyLess(KeyOf(r, on), KeyOf(Head(sorted), on)) THEN <<r>> \o sorted
    ELSE <<Head(sorted)>> \o InsertByKey(Tail(sorted), r, on)

\* Stable sort of rows by their key (how='outer' sorts keys lexicographically).
RECURSIVE SortByKey(_, _)
SortByKey(rows, on) ==
    IF rows = <<>> THEN <<>>
    ELSE InsertByKey(SortByKey(SubSeq(rows, 1, Len(rows) - 1), on), rows[Len(rows)], on)

Merge(l, r, on, how) ==
    LET mcols == MergeColumns(l.columns, r.columns, on)
        rows == CASE how = "inner" -> LeftOrderRows(mcols, l.rows, r.rows, on, FALSE)
                  [] how = "left" -> LeftOrderRows(mcols, l.rows, r.rows, on, TRUE)
                  [] how = "right" -> RightOrderRows(mcols, l.rows, r.rows, on)
                  [] how = "outer" ->
                        SortByKey(LeftOrderRows(mcols, l.rows, r.rows, on, TRUE)
                                  \o RightOnlyRows(mcols, l.rows, r.rows, on), on)
    IN [columns |-> [i \in DOMAIN mcols |-> mcols[i].name],
        rows |-> rows,
        index |-> RangeIndex(Len(rows))]

-----------------------------------------------------------------------------
(* stata_merge *)

\* while name in columns: name += ch
RECURSIVE FreshName(_, _, _)
FreshName(name, ch, columns) ==
    IF name \in Range(columns) THEN FreshName(name \o ch, ch, columns) ELSE name

\* Fault model for DataFrameCopy: no copy, the same object.
ShallowAlias(heap, src, dst) == [ref |-> src, heap |-> heap]

\* The heap of a call: the caller's two frames and the callee's copies.
\* df.copy() allocates a new object `dst` and returns a reference to it.
DataFrameCopy(heap, src, dst) ==
    [ref |-> dst, heap |-> [heap EXCEPT ![dst] = heap[src]]]

\* Fault model for AddFill: no fill_value.
AddNoFill(a, b) == IF a = NaN \/ b = NaN THEN NaN ELSE a + b

\* Series.add(other, fill_value=0)
AddFill(a, b) ==
    IF a = NaN /\ b = NaN THEN NaN
    ELSE (IF a = NaN THEN 0 ELSE a) + (IF b = NaN THEN 0 ELSE b)

\* new.groupby(gen).size() / new.shape[0]: status -> <<count, total>>
Distribution(df, gen) ==
    LET present == {df.rows[i][gen] : i \in DOMAIN df.rows} \ {NaN}
    IN [v \in present |->
          <<Cardinality({i \in DOMAIN df.rows : df.rows[i][gen] = v}), NRows(df)>>]

\* assertval is <<>> (None) or <<v>>; `if assertval:` is its truthiness.
Truthy(assertval) == assertval # <<>> /\ assertval[1] # 0

\* (new[gen] == assertval).min(): the minimum of no value is NaN, which is true
AssertHolds(df, gen, v) == \A i \in DOMAIN df.rows : df.rows[i][gen] = v

\* Fault model for CheckAndReport: the failed assertion is raised without the report.
CheckNoReport(new, assertval, gen) ==
    IF Truthy(assertval)
    THEN IF AssertHolds(new, gen, assertval[1])
         THEN [status |-> "ok", raisedAt |-> 0, table |-> DelColumn(new, gen),
               stdout |-> <<>>]
         ELSE [status |-> "AssertionError", raisedAt |-> 52, table |-> NoTable,
               stdout |-> <<>>]
    ELSE [status |-> "ok", raisedAt |-> 0, table |-> new,
          stdout |-> << <<"dist", Distribution(new, gen)>> >>]

\* Lines 49-62: the assertion, the report and the returned frame.
CheckAndReport(new, assertval, gen) ==
    IF Truthy(assertval)
    THEN IF AssertHolds(new, gen, assertval[1])
         THEN [status |-> "ok", raisedAt |-> 0, table |-> DelColumn(new, gen),
               stdout |-> <<>>]
         ELSE [status |-> "AssertionError", raisedAt |-> 52, table |-> NoTable,
               stdout |-> << <<"msg", "Merge assertion is false!">>,
                             <<"dist", Distribution(new, gen)>> >>]
    ELSE [status |-> "ok", raisedAt |-> 0, table |-> new,
          stdout |-> << <<"dist", Distribution(new, gen)>> >>]

\* Lines 31-47: the marker columns, the merge and the status flag. The caller's
\* two frames are returned as the call leaves them.
MergeWithFlag(l, r, gen, on, how) ==
    LET left_tmp == FreshName("tmpa", "a", l.columns)
        right_tmp == FreshName("tmpb", "b", r.columns)
        h0 == [left |-> l, right |-> r, copy_left |-> NoTable, copy_right |-> NoTable]
        c1 == DataFrameCopy(h0, "left", "copy_left")
        c2 == DataFrameCopy(c1.heap, "right", "copy_right")
        h1 == [c2.heap EXCEPT ![c1.ref] = SetColumn(@, left_tmp, 1)]
        h2 == [h1 EXCEPT ![c2.ref] = SetColumn(@, right_tmp, 2)]
        new == Merge(h2[c1.ref], h2[c2.ref], on, how)
        flagged == SetColumnSeries(new, gen,
                      [i \in DOMAIN new.rows |->
                          AddFill(new.rows[i][left_tmp], new.rows[i][right_tmp])])
    IN IF left_tmp \notin Range(new.columns) \/ right_tmp \notin Range(new.columns)
       THEN [status |-> "KeyError", raisedAt |-> 45, table |-> NoTable,
             left |-> h2["left"], right |-> h2["right"]]
       ELSE [status |-> "ok", raisedAt |-> 0,
             table |-> DelColumn(DelColumn(flagged, left_tmp), right_tmp),
             left |-> h2["left"], right |-> h2["right"]]

\* The rest of the call, given what lines 31-47 produced.
FinishMerge(m, assertval, gen) ==
    IF m.status # "ok"
    THEN [status |-> m.status, raisedAt |-> m.raisedAt, table |-> NoTable,
          stdout |-> <<>>, trace |-> <<"merge">>, left |-> m.left, right |-> m.right]
    ELSE LET out == CheckAndReport(m.table, assertval, gen)
         IN [status |-> out.status, raisedAt |-> out.raisedAt, table |-> out.table,
             stdout |-> out.stdout, trace |-> <<"merge">>,
             left |-> m.left, right |-> m.right]

\* Result: status, the line that raised (0: none), the returned frame, what was
\* printed, the library operations performed, and the caller's two frames as
\* the call leaves them.
stata_merge(l, r, assertval, gen, on, how) ==
    FinishMerge(MergeWithFlag(l, r, gen, on, how), assertval, gen)

-----------------------------------------------------------------------------
(* group_id *)

\* df.drop_duplicates(): the first row of each distinct combination, with its
\* index label, in the order of first appearance.
DropDuplicates(df) ==
    LET keep == {i \in DOMAIN df.rows : \A j \in 1..(i - 1) : df.rows[j] # df.rows[i]}
        pick(seq) == [k \in 1..Cardinality(keep) |->
                        seq[CHOOSE i \in keep : Cardinality({j \in keep : j < i}) = k - 1]]
    IN [columns |-> df.columns, rows |-> pick(df.rows), index |-> pick(df.index)]

\* Fault model for ResetIndexDrop: the index labels of the first occurrences are kept.
KeepIndex(df) == df

\* df.reset_index(drop=True)
ResetIndexDrop(df) == [df EXCEPT !.index = RangeIndex(NRows(df))]

\* df.index.name = name; df.reset_index(): the index becomes the first column
ResetIndexAs(df, name) ==
    [columns |-> <<name>> \o df.columns,
     rows |-> [i \in DOMAIN df.rows |->
                 [c \in (DOMAIN df.rows[i]) \cup {name} |->
                     IF c = name THEN df.index[i] ELSE df.rows[i][c]]],
     index |-> RangeIndex(NRows(df))]

\* Lines 79-81: the cross-walk of `cols` and the id
UniqueDf(df, cols, name) ==
    ResetIndexAs(ResetIndexDrop(DropDuplicates(Project(df, cols))), name)

\* `if not cols: cols = df.columns.tolist()`
DefaultCols(df, cols) == IF cols = <<>> THEN df.columns ELSE cols

\* Fault model for NameTaken: no check.
NameNeverTaken(df, name) == FALSE

\* Line 76: `name in df.columns`
NameTaken(df, name) == name \in Range(df.columns)

\* Lines 83-89: the merge back onto df
MergeBack(df, unique_df, cols) ==
    LET r == stata_merge(df, unique_df, <<3>>, "_m", cols, "left")
    IN IF r.status # "ok"
       THEN [status |-> r.status, raisedAt |-> r.raisedAt, table |-> NoTable,
             stdout |-> r.stdout, trace |-> <<"drop_duplicates">> \o r.trace,
             left |-> r.left]
       ELSE IF ~(Shape(r.table)[1] = Shape(df)[1] /\ Shape(r.table)[2] = Shape(df)[2] + 1)
       THEN [status |-> "AssertionError", raisedAt |-> 88, table |-> NoTable,
             stdout |-> r.stdout, trace |-> <<"drop_duplicates">> \o r.trace,
             left |-> r.left]
       ELSE [status |-> "ok", raisedAt |-> 0,
             table |-> [r.table EXCEPT !.index = df.index],
             stdout |-> r.stdout, trace |-> <<"drop_duplicates">> \o r.trace,
             left |-> r.left]

group_id(df, cols0, name, merge) ==
    LET cols == DefaultCols(df, cols0)
    IN IF NameTaken(df, name)
       THEN [status |-> "ValueError", raisedAt |-> 77, table |-> NoTable,
             stdout |-> <<>>, trace |-> <<>>, left |-> df]
       ELSE IF merge
       THEN MergeBack(df, UniqueDf(df, cols, name), cols)
       ELSE [status |-> "ok", raisedAt |-> 0, table |-> UniqueDf(df, cols, name),
             stdout |-> <<>>, trace |-> <<"drop_duplicates">>, left |-> df]

-----------------------------------------------------------------------------
(* winsorize *)

\* Probabilities are the multiples q / QDen, q in 0..QDen; a cutoff is kept as
\* the exact numerator over QDen.
QDen == 4

RECURSIVE InsertSorted(_, _)
InsertSorted(sorted, v) ==
    IF sorted = <<>> THEN <<v>>
    ELSE IF v < Head(sorted) THEN <<v>> \o sorted
    ELSE <<Head(sorted)>> \o InsertSorted(Tail(sorted), v)

RECURSIVE SortVals(_)
SortVals(vs) == IF vs = <<>> THEN <<>> ELSE InsertSorted(SortVals(Tail(vs)), Head(vs))

ColumnValues(df, col) == [i \in DOMAIN df.rows |-> df.rows[i][col]]

\* Series.quantile(q / QDen): linear interpolation between the order statistics
\* of the values that are not missing; missing when there is none.
Quantile(vs, q) ==
    LET s == SortVals(SelectSeq(vs, LAMBDA v : v # NaN))
        n == Len(s)
        pos == (n - 1) * q
        lo == pos \div QDen
        rem == pos % QDen
    IN IF n = 0 THEN [nan |-> TRUE, num |-> 0]
       ELSE [nan |-> FALSE,
             num |-> s[lo + 1] * QDen + (IF rem = 0 THEN 0 ELSE rem * (s[lo + 2] - s[lo + 1]))]

\* Fault model for GeCut: a strict comparison.
GtCut(v, cut) == v # NaN /\ ~cut.nan /\ v * QDen > cut.num

\* df[col] >= cuts[0] and df[col] <= cuts[1], one row
GeCut(v, cut) == v # NaN /\ ~cut.nan /\ v * QDen >= cut.num

LeCut(v, cut) == v # NaN /\ ~cut.nan /\ v * QDen <= cut.num

\* np.logical_and(df[col] >= cuts[0], df[col] <= cuts[1])
SurviveThis(df, col, pr) ==
    LET vs == ColumnValues(df, col)
        cut0 == Quantile(vs, pr[1])
        cut1 == Quantile(vs, pr[2])
    IN [i \in DOMAIN df.rows |-> GeCut(vs[i], cut0) /\ LeCut(vs[i], cut1)]

\* Fault model for MinimumMask: np.maximum, a row survives any one column.
MaximumMask(m1, m2) == [i \in DOMAIN m1 |-> m1[i] \/ m2[i]]

\* np.minimum of two boolean arrays
MinimumMask(m1, m2) == [i \in DOMAIN m1 |-> m1[i] /\ m2[i]]

\* Lines 110-113: the loop over `by`, from position idx on
RECURSIVE WinsorLoop(_, _, _, _, _)
WinsorLoop(df, by, ps, idx, survive_winsor) ==
    IF idx > Len(by) THEN survive_winsor
    ELSE WinsorLoop(df, by, ps, idx + 1,
                    MinimumMask(survive_winsor, SurviveThis(df, by[idx], ps[idx])))

\* df[mask]
FilterRows(df, mask) ==
    LET keep == {i \in DOMAIN df.rows : mask[i]}
        pick(seq) == [k \in 1..Cardinality(keep) |->
                        seq[CHOOSE i \in keep : Cardinality({j \in keep : j < i}) = k - 1]]
    IN [columns |-> df.columns, rows |-> pick(df.rows), index |-> pick(df.index)]

\* p is [kind |-> "pair", pairs |-> <<pair>>] (one pair for all columns) or
\* [kind |-> "list", pairs |-> <<pair, ...>>] (one pair per column).
winsorize(df0, by, p) ==
    LET h0 == [left |-> df0, right |-> NoTable, copy_left |-> NoTable, copy_right |-> NoTable]
        c == DataFrameCopy(h0, "left", "copy_left")
        df == c.heap[c.ref]
        ps == IF p.kind = "list" THEN p.pairs ELSE [i \in DOMAIN by |-> p.pairs[1]]
    IN IF p.kind = "list" /\ Len(p.pairs) # Len(by)
       THEN [status |-> "AssertionError", raisedAt |-> 104, table |-> NoTable,
             stdout |-> <<>>, trace |-> <<>>, left |-> c.heap["left"]]
       ELSE [status |-> "ok", raisedAt |-> 0,
             table |-> FilterRows(df, WinsorLoop(df, by, ps, 1, [i \in DOMAIN df.rows |-> TRUE])),
             stdout |-> <<>>, trace |-> <<"quantile">>, left |-> c.heap["left"]]

-----------------------------------------------------------------------------
(* Inputs *)

Hows == {"inner", "left", "right", "outer"}

AssertVals == {<<>>} \cup {<<v>> : v \in 1..3}

RECURSIVE SeqsUpTo(_, _)
SeqsUpTo(S, n) ==
    IF n = 0 THEN {<<>>}
    ELSE LET shorter == SeqsUpTo(S, n - 1)
         IN shorter \cup {Append(s, x) : s \in {t \in shorter : Len(t) = n - 1}, x \in S}

\* A two-column frame: the first column holds `ids`, the second the row's
\* position.
KeyedTable(c1, c2, ids) ==
    [columns |-> <<c1, c2>>,
     rows |-> [i \in DOMAIN ids |-> (c1 :> ids[i]) @@ (c2 :> (i - 1))],
     index |-> RangeIndex(Len(ids))]

\* Second column names of the left and the right frame.
MergeSchemas ==
    { <<"x", "y">>, <<"tmpa", "tmpa">>, <<"x", "tmpa">>, <<"tmpb", "y">> }

NoCall == [op |-> "none", assertval |-> <<>>, gen |-> "", on |-> <<>>, how |-> "",
           cols |-> <<>>, name |-> "", merge |-> FALSE, by |-> <<>>,
           p |-> [kind |-> "pair", pairs |-> <<>>]]

NoResult == [status |-> "none", raisedAt |-> 0, table |-> NoTable, trace |-> <<>>]

InitMerge ==
    /\ \E s \in MergeSchemas :
          \E lids \in SeqsUpTo(Val, MaxRows), rids \in SeqsUpTo(Val, MaxRows) :
             /\ left = KeyedTable("id", s[1], lids)
             /\ right = KeyedTable("id", s[2], rids)
    /\ call = NoCall
    /\ result = NoResult
    /\ stdout = <<>>

\* Key lists present in both frames
MergeOns ==
    IF right = NoTable THEN {}
    ELSE IF left.columns = right.columns THEN {<<"id">>, left.columns} ELSE {<<"id">>}

\* The caller holds two frames and joins them.
CallStataMerge ==
    /\ call.op = "none"
    /\ \E how \in Hows, on \in MergeOns :
         \E m \in {MergeWithFlag(left, right, "_m", on, how)} :
            \E assertval \in AssertVals :
               \E r \in {FinishMerge(m, assertval, "_m")} :
                  /\ call' = [NoCall EXCEPT !.op = "stata_merge", !.assertval = assertval,
                                            !.gen = "_m", !.on = on, !.how = how]
                  /\ result' = [status |-> r.status, raisedAt |-> r.raisedAt,
                                table |-> r.table, trace |-> r.trace]
                  /\ stdout' = r.stdout
                  /\ left' = r.left
                  /\ right' = r.right

NextMerge == CallStataMerge

SpecMerge == InitMerge /\ [][NextMerge]_vars

\* A two-column frame of the given rows (pairs of values) and index labels
PairTable(c1, c2, pairs, index) ==
    [columns |-> <<c1, c2>>,
     rows |-> [i \in DOMAIN pairs |-> (c1 :> pairs[i][1]) @@ (c2 :> pairs[i][2])],
     index |-> index]

\* Index labels of a frame the caller built: the default range, or labels
\* that are neither sorted nor zero-based.
Indexes(n) == { RangeIndex(n), [i \in 1..n |-> 10 - i] }

RowPairs == (0..MaxVal) \X Val

\* Second column names of a single frame
GroupSchemas == { "w", "tmpa", "tmpb", "_m", "group_id" }

IdNames == { "group_id", "gid" }

InitGroup ==
    /\ \E c2 \in GroupSchemas, pairs \in SeqsUpTo(RowPairs, MaxRows) :
          \E index \in Indexes(Len(pairs)) :
             left = PairTable("v", c2, pairs, index)
    /\ right = NoTable
    /\ call = NoCall
    /\ result = NoResult
    /\ stdout = <<>>

\* `cols`: none, one column, or all columns
ColsChoices == { <<>>, <<left.columns[1]>>, <<left.columns[2]>>, left.columns }

\* The caller holds one frame and asks for group ids.
CallGroupId ==
    /\ call.op = "none"
    /\ right = NoTable
    /\ \E cols \in ColsChoices, name \in IdNames, merge \in BOOLEAN :
          \E r \in {group_id(left, cols, name, merge)} :
             /\ call' = [NoCall EXCEPT !.op = "group_id", !.cols = cols,
                                       !.name = name, !.merge = merge]
             /\ result' = [status |-> r.status, raisedAt |-> r.raisedAt,
                           table |-> r.table, trace |-> r.trace]
             /\ stdout' = r.stdout
             /\ left' = r.left
             /\ right' = right

NextGroup == CallGroupId

SpecGroup == InitGroup /\ [][NextGroup]_vars

InitWinsor ==
    /\ \E pairs \in SeqsUpTo(RowPairs, MaxRows) :
          \E index \in Indexes(Len(pairs)) :
             left = PairTable("v", "w", pairs, index)
    /\ right = NoTable
    /\ call = NoCall
    /\ result = NoResult
    /\ stdout = <<>>

QPairs == {pr \in (0..QDen) \X (0..QDen) : pr[1] <= pr[2]}

\* Pairs used in per-column lists
QListPairs == {pr \in QPairs : pr[1] <= 1 /\ pr[2] >= QDen - 1}

WinsorPs ==
    {[kind |-> "pair", pairs |-> <<pr>>] : pr \in QPairs}
    \cup {[kind |-> "list", pairs |-> ps] : ps \in SeqsUpTo(QListPairs, 2) \ {<<>>}}

WinsorBys == { <<"w">>, <<"v", "w">> }

\* The caller holds one frame and trims it.
CallWinsorize ==
    /\ call.op = "none"
    /\ right = NoTable
    /\ \E by \in WinsorBys, p \in WinsorPs :
          /\ Range(by) \subseteq Range(left.columns)
          /\ \E r \in {winsorize(left, by, p)} :
                /\ call' = [NoCall EXCEPT !.op = "winsorize", !.by = by, !.p = p]
                /\ result' = [status |-> r.status, raisedAt |-> r.raisedAt,
                              table |-> r.table, trace |-> r.trace]
                /\ stdout' = r.stdout
                /\ left' = r.left
                /\ right' = right

NextWinsor == CallWinsorize

SpecWinsor == InitWinsor /\ [][NextWinsor]_vars

\* Any caller: two frames to join, or one frame to group or trim.
Init == InitMerge \/ InitGroup

Next == CallStataMerge \/ CallGroupId \/ CallWinsorize

Spec == Init /\ [][Next]_vars

-----------------------------------------------------------------------------
(* Properties of stata_merge *)

KeyIn(df, on, key) == \E i \in DOMAIN df.rows : KeyOf(df.rows[i], on) = key

\* C1: every row returned by stata_merge (no assertval) carries a merge status
\* that is 1, 2 or 3; a row whose key is in both frames has 3; under
\* how='outer' a row whose key is only in the left frame has 1 and a row whose
\* key is only in the right frame has 2.
C1_StatusFlag ==
    (call.op = "stata_merge" /\ call.assertval = <<>> /\ result.status = "ok") =>
        /\ call.gen \in Range(result.table.columns)
        /\ \A i \in DOMAIN result.table.rows :
              LET row == result.table.rows[i]
                  inL == KeyIn(left, call.on, KeyOf(row, call.on))
                  inR == KeyIn(right, call.on, KeyOf(row, call.on))
              IN /\ row[call.gen] \in {1, 2, 3}
                 /\ (inL /\ inR) => row[call.gen] = 3
                 /\ (call.how = "outer" /\ inL /\ ~inR) => row[call.gen] = 1
                 /\ (call.how = "outer" /\ ~inL /\ inR) => row[call.gen] = 2

\* An outer join of frames sharing one key only: three rows, one of each status.
C1_Witness ==
    /\ call.op = "stata_merge" /\ call.assertval = <<>> /\ call.how = "outer"
    /\ result.status = "ok"
    /\ NRows(left) = 2 /\ NRows(right) = 2 /\ NRows(result.table) = 3
    /\ {result.table.rows[i][call.gen] : i \in DOMAIN result.table.rows} = {1, 2, 3}

\* The number of joined rows with status v, counted on the keys of the two
\* frames: matched pairs, and the unmatched rows the join mode keeps.
StatusCount(v) ==
    LET hasR(i) == KeyIn(right, call.on, KeyOf(left.rows[i], call.on))
        hasL(j) == KeyIn(left, call.on, KeyOf(right.rows[j], call.on))
    IN CASE v = 3 -> Cardinality({ij \in (DOMAIN left.rows) \X (DOMAIN right.rows) :
                        KeyOf(left.rows[ij[1]], call.on) = KeyOf(right.rows[ij[2]], call.on)})
         [] v = 1 -> IF call.how \in {"left", "outer"}
                     THEN Cardinality({i \in DOMAIN left.rows : ~hasR(i)}) ELSE 0
         [] v = 2 -> IF call.how \in {"right", "outer"}
                     THEN Cardinality({j \in DOMAIN right.rows : ~hasL(j)}) ELSE 0

\* The printed line is the share of each status present: status -> <<count, total>>
ReportsDistribution(line) ==
    \A n \in {[v \in 1..3 |-> StatusCount(v)]} :
        /\ line[1] = "dist"
        /\ DOMAIN line[2] = {v \in 1..3 : n[v] > 0}
        /\ \A v \in DOMAIN line[2] : line[2][v] = <<n[v], n[1] + n[2] + n[3]>>

\* C4: with an expected status, a row of another status makes the call report
\* the distribution and then fail with an AssertionError, returning nothing;
\* when every row has the status the joined frame is returned without the
\* status column. Without an expected status the distribution is reported and
\* the status column is kept. (Stated of the calls in which the status flag
\* was computed.)
C4_AssertAndReport ==
    (call.op = "stata_merge" /\ result.status # "KeyError") =>
        IF call.assertval # <<>>
        THEN IF \E v \in 1..3 : v # call.assertval[1] /\ StatusCount(v) > 0
             THEN /\ result.status = "AssertionError"
                  /\ result.table = NoTable
                  /\ stdout # <<>>
                  /\ ReportsDistribution(stdout[Len(stdout)])
             ELSE /\ result.status = "ok"
                  /\ call.gen \notin Range(result.table.columns)
                  /\ NRows(result.table) = StatusCount(call.assertval[1])
        ELSE /\ result.status = "ok"
             /\ call.gen \in Range(result.table.columns)
             /\ NRows(result.table) = StatusCount(1) + StatusCount(2) + StatusCount(3)
             /\ Len(stdout) = 1
             /\ ReportsDistribution(stdout[1])

\* A left join asserted to be all matched, with an unmatched left row.
C4_Witness ==
    /\ call.op = "stata_merge" /\ call.assertval = <<3>> /\ call.how = "left"
    /\ result.status = "AssertionError" /\ result.raisedAt = 52
    /\ Len(stdout) = 2

\* C5: the marker columns collide with no column of either frame, so the
\* merge and the status flag complete for every pair of frames, and no marker
\* column is in the returned frame.
C5_MarkersNeverCollide ==
    call.op = "stata_merge" =>
        /\ result.status # "KeyError"
        /\ FreshName("tmpa", "a", left.columns) \notin Range(left.columns) \cup Range(right.columns)
        /\ FreshName("tmpb", "b", right.columns) \notin Range(left.columns) \cup Range(right.columns)

-----------------------------------------------------------------------------
(* Properties of group_id *)

\* The key columns of the call
K == DefaultCols(left, call.cols)

\* Position in df of the first row with this key
FirstAt(df, on, key) ==
    CHOOSE i \in DOMAIN df.rows :
        /\ KeyOf(df.rows[i], on) = key
        /\ \A j \in 1..(i - 1) : KeyOf(df.rows[j], on) # key

\* C2: group_id(T, K, merge=True) returns a frame with T's row count, T's
\* column count + 1 and T's index, whatever T's column names (other than the
\* id name) and duplicates.
C2_MergeKeepsShape ==
    (call.op = "group_id" /\ call.merge /\ call.name \notin Range(left.columns)) =>
        /\ result.status = "ok"
        /\ NRows(result.table) = NRows(left)
        /\ NCols(result.table) = NCols(left) + 1
        /\ result.table.index = left.index

\* C3: without merge, group_id returns one row per distinct K-combination,
\* with the ids 0..count-1 in the order in which the combinations first
\* appear; no cols means all columns.
C3_DenseIds ==
    (call.op = "group_id" /\ ~call.merge /\ result.status = "ok") =>
        LET t == result.table
            keys == {KeyOf(left.rows[i], K) : i \in DOMAIN left.rows}
        IN /\ (call.cols = <<>> => K = left.columns)
           /\ t.columns = <<call.name>> \o K
           /\ NRows(t) = Cardinality(keys)
           /\ {KeyOf(t.rows[k], K) : k \in DOMAIN t.rows} = keys
           /\ \A k \in DOMAIN t.rows : t.rows[k][call.name] = k - 1
           /\ \A k1, k2 \in DOMAIN t.rows :
                 k1 < k2 => FirstAt(left, K, KeyOf(t.rows[k1], K))
                              < FirstAt(left, K, KeyOf(t.rows[k2], K))

\* Two rows that differ, but not on the key column: one combination.
C3_Witness ==
    /\ call.op = "group_id" /\ ~call.merge /\ result.status = "ok"
    /\ Len(call.cols) = 1
    /\ NRows(left) = 2 /\ left.rows[1] # left.rows[2]
    /\ NRows(result.table) = 1

\* C8: group_id raises ValueError when the id name is a column of the frame,
\* with and without merge, and then returns nothing and performs no
\* deduplication, join or report.
C8_NameCollision ==
    (call.op = "group_id" /\ call.name \in Range(left.columns)) =>
        /\ result.status = "ValueError"
        /\ result.table = NoTable
        /\ result.trace = <<>>
        /\ stdout = <<>>

C8_Witness ==
    /\ call.op = "group_id" /\ call.merge /\ call.name \in Range(left.columns)
    /\ NRows(left) > 0
    /\ result.status = "ValueError"

\* The id group_id without merge gives to a key
IdOf(key) ==
    LET m == group_id(left, call.cols, call.name, FALSE).table
    IN m.rows[CHOOSE k \in DOMAIN m.rows : KeyOf(m.rows[k], K) = key][call.name]

\* C10: in the frame group_id returns with merge=True every row keeps its
\* values and carries the id of its K-combination, so two rows have the same
\* id iff they agree on K; and the matched-assertion of the merge never fails.
C10_MergedIds ==
    (call.op = "group_id" /\ call.merge) =>
        /\ ~(result.status = "AssertionError" /\ result.raisedAt = 52)
        /\ result.status = "ok" =>
              LET t == result.table
              IN /\ NRows(t) = NRows(left)
                 /\ \A i \in DOMAIN t.rows :
                       /\ \A c \in Range(left.columns) : t.rows[i][c] = left.rows[i][c]
                       /\ t.rows[i][call.name] = IdOf(KeyOf(left.rows[i], K))
                 /\ \A i, j \in DOMAIN t.rows :
                       (t.rows[i][call.name] = t.rows[j][call.name])
                          <=> (KeyOf(left.rows[i], K) = KeyOf(left.rows[j], K))

\* Rows with a missing key, merged back on that key.
C10_Witness ==
    /\ call.op = "group_id" /\ call.merge /\ result.status = "ok"
    /\ NRows(left) = 2
    /\ \E i \in DOMAIN left.rows : \E k \in DOMAIN K : left.rows[i][K[k]] = NaN
    /\ result.table.rows[1][call.name] # result.table.rows[2][call.name]

-----------------------------------------------------------------------------
(* Properties of winsorize *)

\* The pair of probabilities for the k-th column of `by`
PairFor(k) == IF call.p.kind = "list" THEN call.p.pairs[k] ELSE call.p.pairs[1]

\* Whether row i of the caller's frame lies within the cutoffs of the k-th column
WithinCutoffs(i, k) ==
    LET col == call.by[k]
        vs == ColumnValues(left, col)
    IN /\ GeCut(left.rows[i][col], Quantile(vs, PairFor(k)[1]))
       /\ LeCut(left.rows[i][col], Quantile(vs, PairFor(k)[2]))

FullRangeCall ==
    /\ call.op = "winsorize" /\ Len(call.by) = 1
    /\ call.p.kind = "pair" /\ call.p.pairs[1] = <<0, QDen>>

\* C7 (as stated): winsorize(T, [C], (0, 1)) returns every row of T, for
\* every frame T and column C.
C7_FullRangeKeepsAll ==
    FullRangeCall => (result.status = "ok" /\ result.table = left)

\* C7 (amended): winsorize(T, [C], (0, 1)) returns every row of T when no
\* value of column C is missing.
C7_FullRangeKeepsAllPresent ==
    (FullRangeCall /\ NaN \notin Range(ColumnValues(left, call.by[1])))
        => (result.status = "ok" /\ result.table = left)

\* Two rows with different values, the minimum and the maximum of the column.
C7_Witness ==
    /\ FullRangeCall
    /\ NRows(left) = 2
    /\ NaN \notin Range(ColumnValues(left, call.by[1]))
    /\ left.rows[1][call.by[1]] # left.rows[2][call.by[1]]
    /\ result.table = left

-----------------------------------------------------------------------------
(* Frame property *)

\* C9: no call changes the caller's frames: columns, rows, values and index
\* are as before, whether the call returns or raises.
C9_InputsUnchanged == [][left' = left /\ right' = right]_vars

\* A join that ran on two non-empty frames and failed its assertion.
C9_Witness ==
    /\ call.op = "stata_merge" /\ result.status = "AssertionError"
    /\ NRows(left) > 0 /\ NRows(right) > 0

=============================================================================
